---- MODULE Spec2Model ----
(***************************************************************************)
(* The periodic task scheduler of log4cxx's ThreadUtility                  *)
(* (src/main/cpp/threadutility.cpp): a job store guarded by a recursive    *)
(* mutex, caller threads that add and remove jobs, and the worker thread   *)
(* running priv_data::doPeriodicTasks.                                     *)
(*                                                                         *)
(* Every step of the model is one stretch of code between two points at    *)
(* which another thread can observe or change what the stretch reads or    *)
(* writes: a critical section of job_mutex is one step unless it touches   *)
(* state that job_mutex does not guard (terminated, thread, interrupt).    *)
(***************************************************************************)
EXTENDS Integers, Sequences, FiniteSets, TLC

\* ------------------------------------------------------------- bounds
MaxTime == 2      \* the clock runs 0..MaxTime
MaxJobs == 2      \* addPeriodicTask is not called on a store this long
MaxCalls == 3     \* API calls issued over a run

Callers == {1, 2}     \* threads calling the public API
Workers == {1, 2}     \* thread objects createThread can hand out

\* ---------------------------------------------------------- constants
retryCount == 2       \* priv_data::retryCount{ 2 }

\* LogString values: sequences of characters
NameA  == <<"a">>
NameAB == <<"a", "b">>
NameB  == <<"b">>
Names == {NameA, NameAB, NameB}
Prefixes == {NameA, NameAB}

\* The (name, f, delay) triples addPeriodicTask is called with. f is the
\* behaviour of the std::function: "ok" returns, "fail" throws, "flaky" does
\* either, and may call the store's operations before it does.
Tasks ==
  { [name |-> NameA,  f |-> "fail",  delay |-> 1],
    [name |-> NameAB, f |-> "ok",    delay |-> 3],
    [name |-> NameB,  f |-> "flaky", delay |-> 1] }

VARIABLES
  jobs,         \* priv_data::jobs, the std::list as a sequence
  maxDelay,     \* priv_data::maxDelay
  terminated,   \* priv_data::terminated
  thread,       \* priv_data::thread: 0 when not joinable, else the worker it names
  job_mutex,    \* owner of priv_data::job_mutex, Free when unlocked
  now,          \* std::chrono::system_clock::now()
  cpc,          \* per caller: where it is in its API call
  carg,         \* per caller: the namePrefix of a removePeriodicTasksMatching in progress
  ret,          \* what the call that returned last returned: Void, Threw, Removed(name) or HasReturned(name, value)
  calls,        \* number of API calls issued
  wpc,          \* per worker thread: where it is in doPeriodicTasks
  wCur,         \* per worker: currentTime
  wNext,        \* per worker: nextOperationTime
  wIdx,         \* per worker: position of the range-for iterator in jobs
  wNotified,    \* per worker: a notify reached it while it waits on interrupt
  addSince      \* history, per caller: a job was pushed since its removeAllPeriodicTasks began

vars == << jobs, maxDelay, terminated, thread, job_mutex, now, cpc, carg, ret,
           calls, wpc, wCur, wNext, wIdx, wNotified, addSince >>

Free == <<"none", 0>>
CallerId(c) == <<"caller", c>>
WorkerId(w) == <<"worker", w>>
NoArg == << >>
Void == <<"void">>
Threw == <<"threw">>
HasReturned(name, value) == <<"has", name, value>>
Removed(name) == <<"removed", name>>

\* ---------------------------------------------------- pure operators

\* StartsWith with < for <= in the comparison of the sizes
StartsWithLonger(name, namePrefix) ==
  /\ Len(namePrefix) < Len(name)
  /\ SubSeq(name, 1, Len(namePrefix)) = namePrefix

\* namePrefix.size() <= item.name.size() && item.name.substr(0, namePrefix.size()) == namePrefix
StartsWith(name, namePrefix) ==
  /\ Len(namePrefix) <= Len(name)
  /\ SubSeq(name, 1, Len(namePrefix)) = namePrefix

\* std::find_if over the flags of a predicate: the first position from i on
\* whose flag is set, or Len(flags) + 1 for end()
RECURSIVE FindIf(_, _)
FindIf(flags, i) ==
  IF i > Len(flags) THEN Len(flags) + 1
  ELSE IF flags[i] THEN i
  ELSE FindIf(flags, i + 1)

\* NameMatches without the test of removed
NameMatchesRemovedToo(item, name) == name = item.name

\* the lambda of hasPeriodicTask and of removePeriodicTask
NameMatches(item, name) == ~item.removed /\ name = item.name

\* the lambda of removePeriodicTasksMatching
PrefixMatches(item, namePrefix) == ~item.removed /\ StartsWith(item.name, namePrefix)

\* IsPurged that evicts at the limit instead of over it
IsPurgedAtLimit(item) == item.removed \/ retryCount <= item.errorCount

\* the lambda of the purge pass of doPeriodicTasks
IsPurged(item) == item.removed \/ retryCount < item.errorCount

\* Skipped for a pass that does not look at removed
SkippedNever(item) == FALSE

\* if (item.removed) of the pass of doPeriodicTasks
Skipped(item) == item.removed

\* IsDue one period early
IsDueEarly(item, currentTime) == item.nextRun - item.delay <= currentTime

\* the due test of doPeriodicTasks
IsDue(item, currentTime) == item.nextRun <= currentTime

\* std::list::erase
Erase(s, i) == SubSeq(s, 1, i - 1) \o SubSeq(s, i + 1, Len(s))

MinOf(a, b) == IF a < b THEN a ELSE b

\* ------------------------------------------------------------ Init
Init ==
  /\ jobs = << >>
  /\ maxDelay = 0
  /\ terminated = FALSE
  /\ thread = 0
  /\ job_mutex = Free
  /\ now = 0
  /\ cpc = [c \in Callers |-> "idle"]
  /\ carg = [c \in Callers |-> NoArg]
  /\ ret = Void
  /\ calls = 0
  /\ wpc = [w \in Workers |-> "none"]
  /\ wCur = [w \in Workers |-> 0]
  /\ wNext = [w \in Workers |-> 0]
  /\ wIdx = [w \in Workers |-> 0]
  /\ wNotified = [w \in Workers |-> FALSE]
  /\ addSince = [c \in Callers |-> FALSE]

\* ------------------------------------------------- shared helpers

\* NamedPeriodicFunction{name, delay, currentTime + delay, f, 0, false}. The
\* field since is history, not part of the struct: the time the job was
\* registered or, once it has run, last returned cleanly.
NewJob(name, f, delay, currentTime) ==
  [ name |-> name, delay |-> delay, nextRun |-> currentTime + delay, f |-> f,
    errorCount |-> 0, removed |-> FALSE, since |-> currentTime ]

\* std::thread::joinable()
ThreadJoinable == thread # 0

\* NeedsThread with the test of joinable() left out
NeedsThreadAlways == TRUE

\* if (!m_priv->thread.joinable()) of addPeriodicTask
NeedsThread == ~ThreadJoinable

\* while (!jobs.empty()) jobs.pop_back()
PopAll(s) == << >>

\* interrupt.notify_one(): wakes one of the threads waiting on the condition
NotifyOne ==
  IF \E w \in Workers : wpc[w] = "waiting" /\ ~wNotified[w]
  THEN LET w == CHOOSE v \in Workers : wpc[v] = "waiting" /\ ~wNotified[v]
       IN  [wNotified EXCEPT ![w] = TRUE]
  ELSE wNotified

\* interrupt.notify_all()
NotifyAll == [w \in Workers |-> (wpc[w] = "waiting") \/ wNotified[w]]

\* the thread object createThread returns: the lowest unused one
FreeWorker == CHOOSE w \in Workers : wpc[w] = "none" /\ \A v \in Workers : wpc[v] = "none" => w <= v

InRemoveAll(c) == cpc[c] \in {"ra_stop", "ra_joinable", "ra_join"}

Alive(w) == wpc[w] \notin {"none", "exited"}

wvars == << wpc, wCur, wNext, wIdx >>

\* --------------------------------------------------- caller threads

\* addPeriodicTask up to the test of thread.joinable(); when the thread is
\* joinable the call ends here with notify_one, else terminated is cleared and
\* the call goes on, holding job_mutex, to create the thread.
AddPeriodicTask(c, t) ==
  /\ cpc[c] = "idle"
  /\ calls < MaxCalls
  /\ Len(jobs) < MaxJobs
  /\ job_mutex = Free
  /\ calls' = calls + 1
  /\ maxDelay' = IF maxDelay < t.delay THEN t.delay ELSE maxDelay
  /\ jobs' = Append(jobs, NewJob(t.name, t.f, t.delay, now))
  /\ addSince' = [d \in Callers |-> InRemoveAll(d)]
  /\ IF NeedsThread
     THEN /\ terminated' = FALSE
          /\ cpc' = [cpc EXCEPT ![c] = "add_start"]
          /\ job_mutex' = CallerId(c)
          /\ UNCHANGED << wNotified, ret >>
     ELSE /\ wNotified' = NotifyOne
          /\ ret' = Void
          /\ UNCHANGED << terminated, cpc, job_mutex >>
  /\ UNCHANGED << thread, now, carg, wvars >>

\* m_priv->thread = createThread(...), then the lock guard's release
AddStartThread(c) ==
  /\ cpc[c] = "add_start"
  /\ \E w \in Workers : wpc[w] = "none"
  /\ thread' = FreeWorker
  /\ wpc' = [wpc EXCEPT ![FreeWorker] = "loop"]
  /\ job_mutex' = Free
  /\ cpc' = [cpc EXCEPT ![c] = "idle"]
  /\ ret' = Void
  /\ UNCHANGED << jobs, maxDelay, terminated, now, carg, calls, wCur, wNext,
                  wIdx, wNotified, addSince >>

\* FindByName that returns the last match instead of the first
FindByNameLast(s, name) ==
  LET m == {k \in 1..Len(s) : NameMatches(s[k], name)}
  IN  IF m = {} THEN Len(s) + 1 ELSE CHOOSE k \in m : \A j \in m : j <= k

\* the position the find_if of hasPeriodicTask and of removePeriodicTask returns
FindByName(s, name) == FindIf([k \in 1..Len(s) |-> NameMatches(s[k], name)], 1)

\* the value hasPeriodicTask returns
HasResult(s, name) == Len(s) + 1 # FindByName(s, name)

HasPeriodicTask(c, name) ==
  /\ cpc[c] = "idle"
  /\ calls < MaxCalls
  /\ job_mutex = Free
  /\ calls' = calls + 1
  /\ ret' = HasReturned(name, HasResult(jobs, name))
  /\ UNCHANGED << jobs, maxDelay, terminated, thread, job_mutex, now, cpc, carg,
                  wvars, wNotified, addSince >>

RemovePeriodicTask(c, name) ==
  /\ cpc[c] = "idle"
  /\ calls < MaxCalls
  /\ job_mutex = Free
  /\ calls' = calls + 1
  /\ ret' = Removed(name)
  /\ LET pItem == FindByName(jobs, name)
     IN  IF Len(jobs) + 1 # pItem
         THEN /\ jobs' = [jobs EXCEPT ![pItem].removed = TRUE]
              /\ wNotified' = NotifyOne
         ELSE UNCHANGED << jobs, wNotified >>
  /\ UNCHANGED << maxDelay, terminated, thread, job_mutex, now, cpc, carg,
                  wvars, addSince >>

\* the position removePeriodicTasksMatching's find_if returns
FindByPrefix(s, namePrefix) == FindIf([k \in 1..Len(s) |-> PrefixMatches(s[k], namePrefix)], 1)

\* MatchingTurn without pItem->removed = true: the next scan finds the same job
MatchingTurnNoMark(c) ==
  /\ cpc[c] = "rm_scan"
  /\ job_mutex = Free
  /\ LET pItem == FindByPrefix(jobs, carg[c])
     IN  IF Len(jobs) + 1 = pItem
         THEN /\ cpc' = [cpc EXCEPT ![c] = "idle"]
              /\ carg' = [carg EXCEPT ![c] = NoArg]
              /\ wNotified' = NotifyOne
              /\ ret' = Void
         ELSE UNCHANGED << cpc, carg, wNotified, ret >>
  /\ UNCHANGED << jobs, maxDelay, terminated, thread, job_mutex, now, calls,
                  wvars, addSince >>

\* one turn of the while (1) of removePeriodicTasksMatching; the turn that
\* finds nothing breaks and goes on to the notify_one after the loop
MatchingTurn(c) ==
  /\ cpc[c] = "rm_scan"
  /\ job_mutex = Free
  /\ LET pItem == FindByPrefix(jobs, carg[c])
     IN  IF Len(jobs) + 1 = pItem
         THEN /\ cpc' = [cpc EXCEPT ![c] = "idle"]
              /\ carg' = [carg EXCEPT ![c] = NoArg]
              /\ wNotified' = NotifyOne
              /\ ret' = Void
              /\ UNCHANGED jobs
         ELSE /\ jobs' = [jobs EXCEPT ![pItem].removed = TRUE]
              /\ UNCHANGED << cpc, carg, wNotified, ret >>
  /\ UNCHANGED << maxDelay, terminated, thread, job_mutex, now, calls, wvars,
                  addSince >>

\* removePeriodicTasksMatching is called
RemovePeriodicTasksMatching(c, namePrefix) ==
  /\ cpc[c] = "idle"
  /\ calls < MaxCalls
  /\ calls' = calls + 1
  /\ cpc' = [cpc EXCEPT ![c] = "rm_scan"]
  /\ carg' = [carg EXCEPT ![c] = namePrefix]
  /\ UNCHANGED << jobs, maxDelay, terminated, thread, job_mutex, now, ret,
                  wvars, wNotified, addSince >>

\* the first block of removeAllPeriodicTasks
RemoveAllPeriodicTasks(c) ==
  /\ cpc[c] = "idle"
  /\ calls < MaxCalls
  /\ job_mutex = Free
  /\ calls' = calls + 1
  /\ jobs' = PopAll(jobs)
  /\ cpc' = [cpc EXCEPT ![c] = "ra_stop"]
  /\ addSince' = [addSince EXCEPT ![c] = FALSE]
  /\ UNCHANGED << maxDelay, terminated, thread, job_mutex, now, carg, ret,
                  wvars, wNotified >>

\* stopThread: setTerminated() and interrupt.notify_all()
StopThreadSignal(c) ==
  /\ cpc[c] = "ra_stop"
  /\ terminated' = TRUE
  /\ wNotified' = NotifyAll
  /\ cpc' = [cpc EXCEPT ![c] = "ra_joinable"]
  /\ UNCHANGED << jobs, maxDelay, thread, job_mutex, now, carg, ret, calls,
                  wvars, addSince >>

\* stopThread: if (thread.joinable())
StopThreadJoinable(c) ==
  /\ cpc[c] = "ra_joinable"
  /\ IF ThreadJoinable
     THEN /\ cpc' = [cpc EXCEPT ![c] = "ra_join"]
          /\ UNCHANGED << ret, addSince >>
     ELSE /\ cpc' = [cpc EXCEPT ![c] = "idle"]
          /\ ret' = Void
          /\ addSince' = [addSince EXCEPT ![c] = FALSE]
  /\ UNCHANGED << jobs, maxDelay, terminated, thread, job_mutex, now, carg,
                  calls, wvars, wNotified >>

\* JoinReturns for a stopThread that does not wait for the thread
JoinReturnsAtOnce(w) == TRUE

\* thread.join() returns once the thread it names has returned from
\* doPeriodicTasks, and leaves the thread object not joinable
JoinReturns(w) == wpc[w] = "exited"

StopThreadJoin(c) ==
  /\ cpc[c] = "ra_join"
  /\ ThreadJoinable
  /\ JoinReturns(thread)
  /\ wpc' = [wpc EXCEPT ![thread] = IF @ = "exited" THEN "none" ELSE @]
  /\ thread' = 0
  /\ cpc' = [cpc EXCEPT ![c] = "idle"]
  /\ ret' = Void
  /\ addSince' = [addSince EXCEPT ![c] = FALSE]
  /\ UNCHANGED << jobs, maxDelay, terminated, job_mutex, now, carg, calls,
                  wCur, wNext, wIdx, wNotified >>

\* thread.join() on a thread object another caller has joined in the
\* meantime: std::system_error leaves removeAllPeriodicTasks
StopThreadJoinThrows(c) ==
  /\ cpc[c] = "ra_join"
  /\ ~ThreadJoinable
  /\ cpc' = [cpc EXCEPT ![c] = "idle"]
  /\ ret' = Threw
  /\ addSince' = [addSince EXCEPT ![c] = FALSE]
  /\ UNCHANGED << jobs, maxDelay, terminated, thread, job_mutex, now, carg,
                  calls, wvars, wNotified >>

\* ---------------------------------------------------- worker thread
\* doPeriodicTasks, run by worker w

\* while (!this->terminated), currentTime and nextOperationTime
WorkerLoopTest(w) ==
  /\ wpc[w] = "loop"
  /\ IF terminated
     THEN /\ wpc' = [wpc EXCEPT ![w] = "exited"]
          /\ UNCHANGED << wCur, wNext >>
     ELSE /\ wpc' = [wpc EXCEPT ![w] = "pass"]
          /\ wCur' = [wCur EXCEPT ![w] = now]
          /\ wNext' = [wNext EXCEPT ![w] = now + maxDelay]
  /\ UNCHANGED << jobs, maxDelay, terminated, thread, job_mutex, now, cpc, carg,
                  ret, calls, wIdx, wNotified, addSince >>

\* the lock guard of the pass and jobs.begin()
WorkerPassBegin(w) ==
  /\ wpc[w] = "pass"
  /\ job_mutex = Free
  /\ job_mutex' = WorkerId(w)
  /\ wIdx' = [wIdx EXCEPT ![w] = 1]
  /\ wpc' = [wpc EXCEPT ![w] = "iter"]
  /\ UNCHANGED << jobs, maxDelay, terminated, thread, now, cpc, carg, ret,
                  calls, wCur, wNext, wNotified, addSince >>

\* the range-for reaches jobs.end()
WorkerPassEnd(w) ==
  /\ wpc[w] = "iter"
  /\ wIdx[w] > Len(jobs)
  /\ job_mutex' = Free
  /\ wIdx' = [wIdx EXCEPT ![w] = 0]
  /\ wpc' = [wpc EXCEPT ![w] = "purge"]
  /\ UNCHANGED << jobs, maxDelay, terminated, thread, now, cpc, carg, ret,
                  calls, wCur, wNext, wNotified, addSince >>

\* if (this->terminated) return;
WorkerSeesTerminated(w) ==
  /\ wpc[w] = "iter"
  /\ wIdx[w] <= Len(jobs)
  /\ terminated
  /\ job_mutex' = Free
  /\ wpc' = [wpc EXCEPT ![w] = "exited"]
  /\ wCur' = [wCur EXCEPT ![w] = 0]
  /\ wNext' = [wNext EXCEPT ![w] = 0]
  /\ wIdx' = [wIdx EXCEPT ![w] = 0]
  /\ UNCHANGED << jobs, maxDelay, terminated, thread, now, cpc, carg, ret,
                  calls, wNotified, addSince >>

\* if (item.removed) ;
WorkerSkipRemoved(w) ==
  /\ wpc[w] = "iter"
  /\ wIdx[w] <= Len(jobs)
  /\ ~terminated
  /\ Skipped(jobs[wIdx[w]])
  /\ wIdx' = [wIdx EXCEPT ![w] = @ + 1]
  /\ UNCHANGED << jobs, maxDelay, terminated, thread, job_mutex, now, cpc, carg,
                  ret, calls, wpc, wCur, wNext, wNotified, addSince >>

\* else if (item.nextRun <= currentTime): item.f() is entered
WorkerRunJob(w) ==
  /\ wpc[w] = "iter"
  /\ wIdx[w] <= Len(jobs)
  /\ ~terminated
  /\ ~Skipped(jobs[wIdx[w]])
  /\ IsDue(jobs[wIdx[w]], wCur[w])
  /\ wpc' = [wpc EXCEPT ![w] = "exec"]
  /\ UNCHANGED << jobs, maxDelay, terminated, thread, job_mutex, now, cpc, carg,
                  ret, calls, wCur, wNext, wIdx, wNotified, addSince >>

\* ------------------------------------- calls made by a job's action
\* item.f() runs on the worker thread, inside the pass, with job_mutex held by
\* the worker: a call of the store's operations from it locks the recursive
\* mutex again and runs to its end before any other thread sees the store.

\* the std::function of this job calls the store's operations
CallsBack(item) == item.f = "flaky"

\* addPeriodicTask called by the action: thread names the calling worker and
\* is joinable, so the call ends with notify_one
WorkerCallsAdd(w, t) ==
  /\ wpc[w] = "exec"
  /\ CallsBack(jobs[wIdx[w]])
  /\ calls < MaxCalls
  /\ Len(jobs) < MaxJobs
  /\ ~NeedsThread
  /\ calls' = calls + 1
  /\ maxDelay' = IF maxDelay < t.delay THEN t.delay ELSE maxDelay
  /\ jobs' = Append(jobs, NewJob(t.name, t.f, t.delay, now))
  /\ addSince' = [d \in Callers |-> InRemoveAll(d)]
  /\ wNotified' = NotifyOne
  /\ ret' = Void
  /\ UNCHANGED << terminated, thread, job_mutex, now, cpc, carg, wvars >>

\* hasPeriodicTask called by the action
WorkerCallsHas(w, name) ==
  /\ wpc[w] = "exec"
  /\ CallsBack(jobs[wIdx[w]])
  /\ calls < MaxCalls
  /\ calls' = calls + 1
  /\ ret' = HasReturned(name, HasResult(jobs, name))
  /\ UNCHANGED << jobs, maxDelay, terminated, thread, job_mutex, now, cpc, carg,
                  wvars, wNotified, addSince >>

\* removePeriodicTask called by the action
WorkerCallsRemove(w, name) ==
  /\ wpc[w] = "exec"
  /\ CallsBack(jobs[wIdx[w]])
  /\ calls < MaxCalls
  /\ calls' = calls + 1
  /\ ret' = Removed(name)
  /\ LET pItem == FindByName(jobs, name)
     IN  IF Len(jobs) + 1 # pItem
         THEN /\ jobs' = [jobs EXCEPT ![pItem].removed = TRUE]
              /\ wNotified' = NotifyOne
         ELSE UNCHANGED << jobs, wNotified >>
  /\ UNCHANGED << maxDelay, terminated, thread, job_mutex, now, cpc, carg,
                  wvars, addSince >>

\* the while (1) of removePeriodicTasksMatching run to its break
RECURSIVE MatchingLoop(_, _)
MatchingLoop(s, namePrefix) ==
  LET pItem == FindByPrefix(s, namePrefix)
  IN  IF Len(s) + 1 = pItem THEN s
      ELSE MatchingLoop([s EXCEPT ![pItem].removed = TRUE], namePrefix)

\* removePeriodicTasksMatching called by the action
WorkerCallsRemoveMatching(w, namePrefix) ==
  /\ wpc[w] = "exec"
  /\ CallsBack(jobs[wIdx[w]])
  /\ calls < MaxCalls
  /\ calls' = calls + 1
  /\ jobs' = MatchingLoop(jobs, namePrefix)
  /\ wNotified' = NotifyOne
  /\ ret' = Void
  /\ UNCHANGED << maxDelay, terminated, thread, job_mutex, now, cpc, carg,
                  wvars, addSince >>

\* removeAllPeriodicTasks called by the action: the store is emptied, the
\* job whose action is running with it, then stopThread sets terminated,
\* notifies and, thread being joinable, goes on to thread.join()
WorkerCallsRemoveAll(w) ==
  /\ wpc[w] = "exec"
  /\ CallsBack(jobs[wIdx[w]])
  /\ calls < MaxCalls
  /\ ThreadJoinable
  /\ calls' = calls + 1
  /\ jobs' = PopAll(jobs)
  /\ terminated' = TRUE
  /\ wNotified' = NotifyAll
  /\ wpc' = [wpc EXCEPT ![w] = "self_join"]
  /\ UNCHANGED << maxDelay, thread, job_mutex, now, cpc, carg, ret, wCur, wNext,
                  wIdx, addSince >>

\* thread.join() called on the thread object of the calling thread throws
\* std::system_error (resource_deadlock_would_occur); the exception leaves
\* removeAllPeriodicTasks and item.f() and reaches catch (std::exception&),
\* where item refers to a list node that pop_back has destroyed
WorkerSelfJoinThrows(w) ==
  /\ wpc[w] = "self_join"
  /\ wpc' = [wpc EXCEPT ![w] = "dangling"]
  /\ UNCHANGED << jobs, maxDelay, terminated, thread, job_mutex, now, cpc, carg,
                  ret, calls, wCur, wNext, wIdx, wNotified, addSince >>

\* item.name, ++item.errorCount and the iterator's increment on the destroyed
\* node: the memory still holds what it held, the node's next pointer is
\* end() and the range-for is over
WorkerDanglingEnds(w) ==
  /\ wpc[w] = "dangling"
  /\ job_mutex' = Free
  /\ wIdx' = [wIdx EXCEPT ![w] = 0]
  /\ wpc' = [wpc EXCEPT ![w] = "purge"]
  /\ UNCHANGED << jobs, maxDelay, terminated, thread, now, cpc, carg, ret,
                  calls, wCur, wNext, wNotified, addSince >>

\* the same accesses on memory that has been reused or unmapped: the worker
\* thread faults inside the pass, job_mutex locked
WorkerDanglingCrashes(w) ==
  /\ wpc[w] = "dangling"
  /\ wpc' = [wpc EXCEPT ![w] = "crashed"]
  /\ UNCHANGED << jobs, maxDelay, terminated, thread, job_mutex, now, cpc, carg,
                  ret, calls, wCur, wNext, wIdx, wNotified, addSince >>

\* item.f() returns: the rest of the try block
WorkerJobReturns(w) ==
  /\ wpc[w] = "exec"
  /\ jobs[wIdx[w]].f \in {"ok", "flaky"}
  /\ LET item == jobs[wIdx[w]]
         nextRun == now + item.delay
     IN  /\ jobs' = [jobs EXCEPT ![wIdx[w]] =
                       [item EXCEPT !.nextRun = nextRun, !.errorCount = 0,
                                    !.since = now]]
         /\ wNext' = [wNext EXCEPT ![w] = MinOf(nextRun, @)]
  /\ wIdx' = [wIdx EXCEPT ![w] = @ + 1]
  /\ wpc' = [wpc EXCEPT ![w] = "iter"]
  /\ UNCHANGED << maxDelay, terminated, thread, job_mutex, now, cpc, carg, ret,
                  calls, wCur, wNotified, addSince >>

\* item.f() throws: either catch block
WorkerJobThrows(w) ==
  /\ wpc[w] = "exec"
  /\ jobs[wIdx[w]].f \in {"fail", "flaky"}
  /\ jobs' = [jobs EXCEPT ![wIdx[w]].errorCount = @ + 1]
  /\ wIdx' = [wIdx EXCEPT ![w] = @ + 1]
  /\ wpc' = [wpc EXCEPT ![w] = "iter"]
  /\ UNCHANGED << maxDelay, terminated, thread, job_mutex, now, cpc, carg, ret,
                  calls, wCur, wNext, wNotified, addSince >>

\* else if (item.nextRun < nextOperationTime) nextOperationTime = item.nextRun;
WorkerNotDue(w) ==
  /\ wpc[w] = "iter"
  /\ wIdx[w] <= Len(jobs)
  /\ ~terminated
  /\ ~Skipped(jobs[wIdx[w]])
  /\ ~IsDue(jobs[wIdx[w]], wCur[w])
  /\ wNext' = [wNext EXCEPT ![w] = MinOf(jobs[wIdx[w]].nextRun, @)]
  /\ wIdx' = [wIdx EXCEPT ![w] = @ + 1]
  /\ UNCHANGED << jobs, maxDelay, terminated, thread, job_mutex, now, cpc, carg,
                  ret, calls, wpc, wCur, wNotified, addSince >>

\* the position the purge's find_if returns
FindPurged(s) == FindIf([k \in 1..Len(s) |-> IsPurged(s[k])], 1)

\* one turn of the while (1) that deletes removed and faulty tasks
WorkerPurge(w) ==
  /\ wpc[w] = "purge"
  /\ job_mutex = Free
  /\ LET pItem == FindPurged(jobs)
     IN  IF Len(jobs) + 1 = pItem
         THEN /\ wpc' = [wpc EXCEPT ![w] = "wait"]
              /\ UNCHANGED << jobs, wCur, wNext >>
         ELSE /\ jobs' = Erase(jobs, pItem)
              /\ IF jobs' = << >>
                 THEN /\ wpc' = [wpc EXCEPT ![w] = "exited"]
                      /\ wCur' = [wCur EXCEPT ![w] = 0]
                      /\ wNext' = [wNext EXCEPT ![w] = 0]
                 ELSE UNCHANGED << wpc, wCur, wNext >>
  /\ UNCHANGED << maxDelay, terminated, thread, job_mutex, now, cpc, carg, ret,
                  calls, wIdx, wNotified, addSince >>

\* interrupt.wait_until(lock, nextOperationTime) is entered
WorkerWait(w) ==
  /\ wpc[w] = "wait"
  /\ wpc' = [wpc EXCEPT ![w] = "waiting"]
  /\ wNotified' = [wNotified EXCEPT ![w] = FALSE]
  /\ UNCHANGED << jobs, maxDelay, terminated, thread, job_mutex, now, cpc, carg,
                  ret, calls, wCur, wNext, wIdx, addSince >>

\* wait_until has something to return for: a notify or the deadline
WaitOver(w) == wNotified[w] \/ now >= wNext[w]

\* wait_until returns
WorkerWake(w) ==
  /\ wpc[w] = "waiting"
  /\ WaitOver(w)
  /\ wpc' = [wpc EXCEPT ![w] = "loop"]
  /\ wNotified' = [wNotified EXCEPT ![w] = FALSE]
  /\ wCur' = [wCur EXCEPT ![w] = 0]
  /\ wNext' = [wNext EXCEPT ![w] = 0]
  /\ UNCHANGED << jobs, maxDelay, terminated, thread, job_mutex, now, cpc, carg,
                  ret, calls, wIdx, addSince >>

\* wait_until returns spuriously, as a condition variable may
WorkerSpuriousWake(w) ==
  /\ wpc[w] = "waiting"
  /\ ~WaitOver(w)
  /\ wpc' = [wpc EXCEPT ![w] = "loop"]
  /\ wCur' = [wCur EXCEPT ![w] = 0]
  /\ wNext' = [wNext EXCEPT ![w] = 0]
  /\ UNCHANGED << jobs, maxDelay, terminated, thread, job_mutex, now, cpc, carg,
                  ret, calls, wIdx, wNotified, addSince >>

\* ------------------------------------------------------------ clock

\* no thread can take a step of a call or of the worker loop
CallerBlocked(c) ==
  \/ cpc[c] = "idle"
  \/ cpc[c] = "ra_join" /\ ThreadJoinable /\ ~JoinReturns(thread)

WorkerBlocked(w) ==
  \/ ~Alive(w)
  \/ wpc[w] = "crashed"
  \/ wpc[w] = "waiting" /\ ~WaitOver(w)

AllBlocked == (\A c \in Callers : CallerBlocked(c)) /\ (\A w \in Workers : WorkerBlocked(w))

Tick ==
  /\ now < MaxTime
  /\ now' = now + 1
  /\ UNCHANGED << jobs, maxDelay, terminated, thread, job_mutex, cpc, carg, ret,
                  calls, wvars, wNotified, addSince >>

\* ------------------------------------------------------------- Next
\* a step of a thread
Step ==
  \/ \E c \in Callers, t \in Tasks : AddPeriodicTask(c, t)
  \/ \E c \in Callers : AddStartThread(c)
  \/ \E c \in Callers, n \in Names : HasPeriodicTask(c, n)
  \/ \E c \in Callers, n \in Names : RemovePeriodicTask(c, n)
  \/ \E c \in Callers, p \in Prefixes : RemovePeriodicTasksMatching(c, p)
  \/ \E c \in Callers : MatchingTurn(c)
  \/ \E c \in Callers : RemoveAllPeriodicTasks(c)
  \/ \E c \in Callers : StopThreadSignal(c)
  \/ \E c \in Callers : StopThreadJoinable(c)
  \/ \E c \in Callers : StopThreadJoin(c)
  \/ \E c \in Callers : StopThreadJoinThrows(c)
  \/ \E w \in Workers : WorkerLoopTest(w)
  \/ \E w \in Workers : WorkerPassBegin(w)
  \/ \E w \in Workers : WorkerPassEnd(w)
  \/ \E w \in Workers : WorkerSeesTerminated(w)
  \/ \E w \in Workers : WorkerSkipRemoved(w)
  \/ \E w \in Workers : WorkerRunJob(w)
  \/ \E w \in Workers, t \in Tasks : WorkerCallsAdd(w, t)
  \/ \E w \in Workers, n \in Names : WorkerCallsHas(w, n)
  \/ \E w \in Workers, n \in Names : WorkerCallsRemove(w, n)
  \/ \E w \in Workers, p \in Prefixes : WorkerCallsRemoveMatching(w, p)
  \/ \E w \in Workers : WorkerCallsRemoveAll(w)
  \/ \E w \in Workers : WorkerSelfJoinThrows(w)
  \/ \E w \in Workers : WorkerDanglingEnds(w)
  \/ \E w \in Workers : WorkerDanglingCrashes(w)
  \/ \E w \in Workers : WorkerJobReturns(w)
  \/ \E w \in Workers : WorkerJobThrows(w)
  \/ \E w \in Workers : WorkerNotDue(w)
  \/ \E w \in Workers : WorkerPurge(w)
  \/ \E w \in Workers : WorkerWait(w)
  \/ \E w \in Workers : WorkerWake(w)
  \/ \E w \in Workers : WorkerSpuriousWake(w)

Next == Step \/ Tick

Spec == Init /\ [][Next]_vars

\* The runs in which no thread is ever late: a step takes no time, and the
\* clock advances only when no thread has a step to take.
TimelyTick == AllBlocked /\ Tick

TimelyNext == Step \/ TimelyTick

TimelySpec == Init /\ [][TimelyNext]_vars

\* The runs in which every thread that can run does run: the worker goes on
\* through doPeriodicTasks and a job's action comes to its end, a caller that
\* holds job_mutex goes on to release it, and a caller waiting for job_mutex
\* gets it if it is free again and again.
WorkerProgress(w) ==
  \/ WorkerLoopTest(w) \/ WorkerPassBegin(w) \/ WorkerPassEnd(w)
  \/ WorkerSeesTerminated(w) \/ WorkerSkipRemoved(w) \/ WorkerRunJob(w)
  \/ WorkerJobReturns(w) \/ WorkerJobThrows(w) \/ WorkerNotDue(w)
  \/ WorkerPurge(w) \/ WorkerWait(w) \/ WorkerWake(w)
  \/ WorkerSelfJoinThrows(w) \/ WorkerDanglingEnds(w) \/ WorkerDanglingCrashes(w)

FairSpec ==
  /\ Spec
  /\ \A w \in Workers : WF_vars(WorkerProgress(w))
  /\ \A c \in Callers : WF_vars(AddStartThread(c))
  /\ \A c \in Callers : SF_vars(MatchingTurn(c))

\* ------------------------------------------------------------ claims

\* C1: at no time is more than one worker thread alive, and at no time is
\* more than one job action in progress.
C1_SerialExecution ==
  /\ Cardinality({w \in Workers : Alive(w)}) <= 1
  /\ Cardinality({w \in Workers : wpc[w] = "exec"}) <= 1

\* a job action is in progress while a caller is inside a call and the other
\* job of the store is due as well
C1_Witness ==
  \E w \in Workers, c \in Callers :
    /\ wpc[w] = "exec"
    /\ cpc[c] # "idle"
    /\ Len(jobs) = 2
    /\ \A i \in 1..Len(jobs) : ~jobs[i].removed /\ jobs[i].nextRun <= wCur[w]

\* C2: an addPeriodicTask that finds no worker running, because the previous
\* worker returned after its purge emptied the store, goes on to start a new
\* worker thread.
C2_AddRestartsWorker ==
  [][ ( /\ Len(jobs') = Len(jobs) + 1
        /\ ThreadJoinable
        /\ wpc[thread] = "exited"
        /\ ~terminated )
      => (\E c \in Callers : cpc'[c] = "add_start") ]_vars

\* C3: a job whose failure counter exceeds retryCount is erased by the purge
\* of the loop iteration that ran it and is never invoked again; the purge
\* erases no job that is neither removed nor over the limit; a clean return
\* resets the failure counter to 0.
C3_EvictAfterRetries ==
  [][ /\ \A i \in 1..Len(jobs') :
           jobs'[i].errorCount > retryCount
           => \E w \in Workers : wpc'[w] \in {"iter", "exec", "purge"}
      /\ \A w \in Workers :
           wpc'[w] = "exec" => jobs'[wIdx'[w]].errorCount <= retryCount
      /\ (Len(jobs') = Len(jobs) - 1 /\ calls' = calls)
           => \E i \in 1..Len(jobs) :
                /\ jobs' = Erase(jobs, i)
                /\ jobs[i].removed \/ jobs[i].errorCount > retryCount
      /\ \A w \in Workers :
           (wpc[w] = "exec" /\ wpc'[w] = "iter")
           => \/ jobs'[wIdx[w]].errorCount = 0
              \/ jobs'[wIdx[w]].errorCount = jobs[wIdx[w]].errorCount + 1 ]_vars

\* C4: when removeAllPeriodicTasks returns, no addPeriodicTask having pushed a
\* job since it began, no worker thread is running, the store is empty and
\* hasPeriodicTask is false for every name.
C4_RemoveAllSynchronous ==
  [][ \A c \in Callers :
        (InRemoveAll(c) /\ cpc'[c] = "idle" /\ ret' = Void /\ ~addSince[c])
        => /\ \A w \in Workers : ~Alive(w)'
           /\ jobs' = << >>
           /\ \A n \in Names : ~HasResult(jobs', n) ]_vars

\* removeAllPeriodicTasks has returned, after a job was registered and before
\* that job's first deadline
C4_Witness ==
  /\ \A c \in Callers : cpc[c] = "idle"
  /\ ret = Void
  /\ terminated
  /\ ~ThreadJoinable
  /\ jobs = << >>
  /\ maxDelay > 0
  /\ now = 0

\* C5: once stopThread has set terminated and signalled the condition, the
\* worker is not blocked in its timed wait.
C5_StopIsPrompt ==
  \A c \in Callers, w \in Workers :
    (cpc[c] \in {"ra_joinable", "ra_join"} /\ terminated)
    => ~(wpc[w] = "waiting" /\ ~WaitOver(w))

\* C6: hasPeriodicTask(n) returns true exactly when the store holds a job
\* named n whose removed flag is false, and changes nothing.
C6_HasExact ==
  [][ (calls' = calls + 1 /\ cpc' = cpc /\ wpc' = wpc /\ ret'[1] = "has")
      => /\ ret'[3] = (\E i \in 1..Len(jobs) :
                         jobs[i].name = ret'[2] /\ ~jobs[i].removed)
         /\ UNCHANGED << jobs, maxDelay, terminated, thread, job_mutex, now,
                         cpc, carg, wpc, wCur, wNext, wIdx, wNotified,
                         addSince >> ]_vars

\* hasPeriodicTask has returned false for a name whose job is still in the
\* store, marked removed and not yet purged
C6_Witness ==
  /\ \A c \in Callers : cpc[c] = "idle"
  /\ ret[1] = "has"
  /\ ret[3] = FALSE
  /\ \E i \in 1..Len(jobs) : jobs[i].name = ret[2] /\ jobs[i].removed

\* C7: the action of a job marked removed is never started, and a job marked
\* removed stays marked for as long as it is in the store.
C7_RemovedNeverStarted ==
  [][ /\ \A w \in Workers :
           (wpc[w] # "exec" /\ wpc'[w] = "exec") => ~jobs'[wIdx'[w]].removed
      /\ Len(jobs') >= Len(jobs)
           => \A i \in 1..Len(jobs) : jobs[i].removed => jobs'[i].removed ]_vars

\* the pass has gone past a job that was due and is marked removed
C7_Witness ==
  \E w \in Workers, i \in 1..Len(jobs) :
    /\ wpc[w] = "iter"
    /\ i < wIdx[w]
    /\ jobs[i].removed
    /\ jobs[i].nextRun <= wCur[w]

\* namePrefix is a prefix of name
IsPrefixOf(namePrefix, name) ==
  /\ Len(namePrefix) <= Len(name)
  /\ \A k \in 1..Len(namePrefix) : name[k] = namePrefix[k]

\* C8: a turn of removePeriodicTasksMatching(prefix) sets the removed flag of
\* one job that is not removed and whose name starts with prefix and changes
\* nothing else of the store; the call returns only when every job of the
\* store whose name starts with prefix is marked removed.
C8_MatchingExact ==
  [][ /\ ( /\ calls' = calls
           /\ wpc' = wpc
           /\ wIdx' = wIdx
           /\ Len(jobs') = Len(jobs)
           /\ jobs' # jobs )
         => \E c \in Callers, i \in 1..Len(jobs) :
              /\ cpc[c] = "rm_scan"
              /\ IsPrefixOf(carg[c], jobs[i].name)
              /\ ~jobs[i].removed
              /\ jobs' = [jobs EXCEPT ![i].removed = TRUE]
      /\ \A c \in Callers :
           (cpc[c] = "rm_scan" /\ cpc'[c] = "idle")
           => /\ jobs' = jobs
              /\ \A i \in 1..Len(jobs) :
                   IsPrefixOf(carg[c], jobs[i].name) => jobs[i].removed ]_vars

\* removePeriodicTasksMatching("a") has marked the job named "a" and left the
\* job named "b"
C8_Witness ==
  \E c \in Callers, i, j \in 1..Len(jobs) :
    /\ cpc[c] = "rm_scan"
    /\ carg[c] = NameA
    /\ jobs[i].name = NameA /\ jobs[i].removed
    /\ jobs[j].name = NameB /\ ~jobs[j].removed

\* C9: the action of a job is not started before one period has passed since
\* the job was registered or, once it has run, since it last returned cleanly.
C9_NotBeforePeriod ==
  \A w \in Workers :
    wpc[w] = "exec" => now >= jobs[wIdx[w]].since + jobs[wIdx[w]].delay

\* an action is started exactly one period after the registration or the
\* last clean return
C9_Witness ==
  \E w \in Workers :
    /\ wpc[w] = "exec"
    /\ now = jobs[wIdx[w]].since + jobs[wIdx[w]].delay
    /\ jobs[wIdx[w]].since >= 1

\* C10: in a run in which no thread is late, a job whose action always fails
\* is retried at its own period, whatever the other jobs' periods: whenever the
\* worker is in its timed wait and no thread has a step to take, a job that has
\* failed k >= 1 times in a row is not yet due for its next retry, which is
\* k + 1 of its periods after its registration.
C10_RetriedAtOwnPeriod ==
  (AllBlocked /\ \E w \in Workers : wpc[w] = "waiting")
  => \A i \in 1..Len(jobs) :
       (jobs[i].f = "fail" /\ ~jobs[i].removed /\ jobs[i].errorCount >= 1)
       => now < jobs[i].since + (jobs[i].errorCount + 1) * jobs[i].delay

\* C11: a store operation called by a job's action on the worker thread
\* returns without the worker joining itself, and the job the pass's traversal
\* stands on stays a job of the store while the action runs and after it.
C11_ReentrantCallsSafe ==
  \A w \in Workers :
    /\ wpc[w] # "self_join"
    /\ (job_mutex = WorkerId(w) /\ wpc[w] # "iter") => wIdx[w] \in 1..Len(jobs)

\* C12: when an execution attempt of a due job ends, by a clean return or by
\* a caught fault, the job's nextRun is the time of the attempt plus its
\* period, the pass's nextOperationTime is no later than it, and nextRun is
\* later than the pass's currentTime.
C12_NextRunAfterAttempt ==
  [][ \A w \in Workers :
        (wpc[w] = "exec" /\ wpc'[w] = "iter")
        => LET item == jobs'[wIdx[w]]
           IN  /\ item.nextRun = now + item.delay
               /\ wNext'[w] <= item.nextRun
               /\ item.nextRun > wCur[w] ]_vars

\* a job of the store that is neither removed nor over the retry limit
Live(item) == ~IsPurged(item)

\* C13: when the pass over the store ends, the deadline the worker will wait
\* for is no later than currentTime + maxDelay and no later than the nextRun
\* of any job of the store that is neither removed nor about to be evicted.
C13_DeadlineCoversJobs ==
  [][ \A w \in Workers :
        (wpc[w] = "iter" /\ wpc'[w] = "purge")
        => /\ wNext[w] <= wCur[w] + maxDelay
           /\ \A i \in 1..Len(jobs) :
                Live(jobs[i]) => wNext[w] <= jobs[i].nextRun ]_vars

\* C14: in a run in which no thread is late, a job that has not failed is
\* never overdue while the worker sleeps in its timed wait: a job added while
\* the worker runs is executed at its own nextRun, wherever in the worker's
\* loop the call landed.
C14_AddedJobOnTime ==
  (AllBlocked /\ \E w \in Workers : wpc[w] = "waiting")
  => \A i \in 1..Len(jobs) :
       (~jobs[i].removed /\ jobs[i].errorCount = 0) => now < jobs[i].nextRun

\* C15: when a job's action raises, the fault is caught inside the pass: the
\* job is a job of the store, its errorCount goes up by one and nothing else
\* of the store changes, and the worker goes on, job_mutex held, to the next
\* job of the pass.
C15_FaultStaysInPass ==
  [][ \A w \in Workers :
        ( \/ wpc[w] = "self_join" /\ wpc'[w] # "self_join"
          \/ /\ wpc[w] = "exec" /\ wpc'[w] = "iter"
             /\ jobs'[wIdx[w]].errorCount > 0 )
        => /\ wIdx[w] \in 1..Len(jobs)
           /\ jobs' = [jobs EXCEPT ![wIdx[w]].errorCount = @ + 1]
           /\ wpc'[w] = "iter"
           /\ wIdx'[w] = wIdx[w] + 1
           /\ job_mutex' = WorkerId(w) ]_vars

\* C16: a step that is not a call of the API shortens the store only by
\* erasing one job that is removed or over the retry limit, the other jobs
\* keeping their order; and when the purge ends on a store that is not empty,
\* no job of the store is removed or over the limit.
C16_PurgeExact ==
  [][ /\ (calls' = calls /\ Len(jobs') < Len(jobs))
         => \E i \in 1..Len(jobs) :
              /\ jobs[i].removed \/ jobs[i].errorCount > retryCount
              /\ jobs' = Erase(jobs, i)
      /\ (calls' = calls /\ Len(jobs') >= Len(jobs))
         => \A i \in 1..Len(jobs) : jobs'[i].name = jobs[i].name
      /\ \A w \in Workers :
           (wpc[w] = "purge" /\ wpc'[w] = "wait")
           => \A i \in 1..Len(jobs') :
                ~jobs'[i].removed /\ jobs'[i].errorCount <= retryCount ]_vars

\* the purge has ended and left in the store a job that has failed retryCount
\* times
C16_Witness ==
  \E w \in Workers, i \in 1..Len(jobs) :
    /\ wpc[w] = "wait"
    /\ jobs[i].errorCount = retryCount
    /\ ~jobs[i].removed

\* C17: removePeriodicTask(name) sets the removed flag of the first job, in
\* the order of registration, that is not removed and is named name, and
\* changes nothing else; when there is no such job it changes nothing.
C17_RemoveFirstOnly ==
  [][ ( /\ calls' = calls + 1 /\ cpc' = cpc /\ wpc' = wpc
        /\ ret'[1] = "removed" )
      => LET named == {i \in 1..Len(jobs) :
                         jobs[i].name = ret'[2] /\ ~jobs[i].removed}
         IN  /\ IF named = {}
                THEN jobs' = jobs
                ELSE \E i \in named :
                       /\ \A k \in named : i <= k
                       /\ jobs' = [jobs EXCEPT ![i].removed = TRUE]
             /\ UNCHANGED << maxDelay, terminated, thread, job_mutex, now,
                             carg, wCur, wNext, wIdx, addSince >> ]_vars

\* removePeriodicTask(n) has marked the first of two jobs named n and left the
\* second registered
C17_Witness ==
  /\ ret[1] = "removed"
  /\ Len(jobs) = 2
  /\ jobs[1].name = ret[2] /\ jobs[1].removed
  /\ jobs[2].name = ret[2] /\ ~jobs[2].removed

\* C18: a removePeriodicTasksMatching(prefix) that has been called returns,
\* the worker thread not having faulted, and at its last scan no job of the
\* store whose name starts with prefix is left unmarked, the jobs other
\* threads pushed during the call included.
C18_MatchingTerminates ==
  /\ \A c \in Callers :
       (cpc[c] = "rm_scan")
       ~> (cpc[c] = "idle" \/ \E w \in Workers : wpc[w] = "crashed")
  /\ [][ \A c \in Callers :
           (cpc[c] = "rm_scan" /\ cpc'[c] = "idle")
           => ~ \E i \in 1..Len(jobs') :
                  /\ IsPrefixOf(carg[c], jobs'[i].name)
                  /\ ~jobs'[i].removed ]_vars

\* a removePeriodicTasksMatching has marked a job and has another scan to
\* make for a matching job registered later
C18_Witness ==
  \E c \in Callers :
    /\ cpc[c] = "rm_scan"
    /\ Len(jobs) = 2
    /\ IsPrefixOf(carg[c], jobs[1].name) /\ jobs[1].removed
    /\ IsPrefixOf(carg[c], jobs[2].name) /\ ~jobs[2].removed
    /\ jobs[2].since > jobs[1].since

\* C19: an addPeriodicTask called after removeAllPeriodicTasks has returned
\* (terminated is set and no removeAllPeriodicTasks is in progress) clears
\* terminated and goes on to start a new worker thread.
C19_AddAfterRemoveAll ==
  [][ ( /\ Len(jobs') = Len(jobs) + 1
        /\ terminated
        /\ \A c \in Callers : ~InRemoveAll(c) )
      => /\ ~terminated'
         /\ \E c \in Callers : cpc[c] = "idle" /\ cpc'[c] = "add_start" ]_vars

\* C20: when no call is in progress, the store does not hold a job that is
\* not removed while terminated is set and no worker thread is running.
C20_NoOrphanJobs ==
  ( /\ \A c \in Callers : cpc[c] = "idle"
    /\ terminated
    /\ \A w \in Workers : ~Alive(w) )
  => \A i \in 1..Len(jobs) : jobs[i].removed

====
